---- MODULE Spec2Model ----
(***************************************************************************)
(* The string-similarity core of src/wasm/similarity/src/lib.rs: the       *)
(* Levenshtein distance, the similarity score derived from it, and the     *)
(* exported operations built on both.                                     *)
(*                                                                         *)
(* A &str is modelled as what it is: a sequence of UTF-8 bytes.  chars()   *)
(* decodes it into Unicode scalar values, len() counts its bytes.          *)
(*                                                                         *)
(* An f64 is modelled as a reduced fraction [num, den] with den > 0, and   *)
(* NaN as [num |-> 0, den |-> 0].  The only f64 values the code computes   *)
(* are 1.0 and 1.0 - (d / m) for integers 0 <= d <= m, m > 0, m small:     *)
(* on these, IEEE rounding maps equal rationals to equal floats, distinct  *)
(* rationals to distinct floats and keeps their order, and a comparison    *)
(* with a threshold that is exactly representable (0, 1/2, 1, 3/2) has the *)
(* outcome of the exact comparison.                                        *)
(***************************************************************************)
EXTENDS Integers, Sequences, FiniteSets, TLC

VARIABLES pc, op, s1, s2, words, threshold, ret

vars == <<pc, op, s1, s2, words, threshold, ret>>

----------------------------------------------------------------------------
(* Bounds of the model *)

\* longest string (in scalar values) passed to the two-string operations
MaxLen == 3
\* longest candidate list
MaxWords == 3
\* longest string (in scalar values) passed to is_similar, and of the triangle
\* inequality
MaxShortLen == 2

----------------------------------------------------------------------------
(* Strings *)

\* 'a', 'b' (one byte each in UTF-8) and U+00E9 (two bytes)
Alphabet == {97, 98, 233}

Max(x, y) == IF x >= y THEN x ELSE y

Min(x, y) == IF x <= y THEN x ELSE y

\* the UTF-8 encoding of one scalar value
Utf8Encode(c) ==
    IF c < 128 THEN <<c>>
    ELSE IF c < 2048 THEN <<192 + (c \div 64), 128 + (c % 64)>>
    ELSE IF c < 65536
         THEN <<224 + (c \div 4096), 128 + ((c \div 64) % 64), 128 + (c % 64)>>
         ELSE <<240 + (c \div 262144), 128 + ((c \div 4096) % 64),
                128 + ((c \div 64) % 64), 128 + (c % 64)>>

\* the &str holding the scalar values cs
RECURSIVE Str(_)
Str(cs) == IF cs = <<>> THEN <<>> ELSE Utf8Encode(Head(cs)) \o Str(Tail(cs))

\* the sequences over S of length at most n
SeqsUpTo(S, n) == UNION {[1..k -> S] : k \in 0..n}

\* every &str is valid UTF-8
Strings == {Str(cs) : cs \in SeqsUpTo(Alphabet, MaxLen)}

ShortStrings == {Str(cs) : cs \in SeqsUpTo(Alphabet, MaxShortLen)}

\* the queries and candidates of the list operations: "", "a", U+00E9, "ab" and
\* U+00E9 followed by "a"
WordStrings ==
    {Str(<<>>), Str(<<97>>), Str(<<233>>), Str(<<97, 98>>), Str(<<233, 97>>)}

\* str::chars: the scalar values a &str decodes to
RECURSIVE chars(_)
chars(s) ==
    IF s = <<>> THEN <<>>
    ELSE LET b == s[1] IN
         IF b < 128 THEN <<b>> \o chars(SubSeq(s, 2, Len(s)))
         ELSE IF b < 224
              THEN <<(b - 192) * 64 + (s[2] - 128)>> \o chars(SubSeq(s, 3, Len(s)))
         ELSE IF b < 240
              THEN <<(b - 224) * 4096 + (s[2] - 128) * 64 + (s[3] - 128)>>
                   \o chars(SubSeq(s, 4, Len(s)))
              ELSE <<(b - 240) * 262144 + (s[2] - 128) * 4096
                     + (s[3] - 128) * 64 + (s[4] - 128)>>
                   \o chars(SubSeq(s, 5, Len(s)))

\* str::len: the length in bytes
len(s) == Len(s)

----------------------------------------------------------------------------
(* levenshtein_distance *)

\* vec![vec![0; len2 + 1]; len1 + 1]
ZeroMatrix(len1, len2) == [i \in 0..len1 |-> [j \in 0..len2 |-> 0]]

\* for i in 0..=len1 { matrix[i][0] = i; }
RECURSIVE InitColumn(_, _, _)
InitColumn(matrix, i, len1) ==
    IF i > len1 THEN matrix
    ELSE InitColumn([matrix EXCEPT ![i][0] = i], i + 1, len1)

\* for j in 0..=len2 { matrix[0][j] = j; }
RECURSIVE InitRow(_, _, _)
InitRow(matrix, j, len2) ==
    IF j > len2 THEN matrix
    ELSE InitRow([matrix EXCEPT ![0][j] = j], j + 1, len2)

\* cost with its two branches swapped
CostInverted(c1, c2) == IF c1 = c2 THEN 1 ELSE 0

\* cost that charges a match like a substitution
CostAlwaysOne(c1, c2) == 1

cost(c1, c2) == IF c1 = c2 THEN 0 ELSE 1

\* Cell without the substitution term
CellNoSubstitution(matrix, i, j, c) ==
    Min(matrix[i - 1][j] + 1, matrix[i][j - 1] + 1)

\* Cell with a deletion charged 2
CellDeletionTwo(matrix, i, j, c) ==
    Min(Min(matrix[i - 1][j] + 2, matrix[i][j - 1] + 1), matrix[i - 1][j - 1] + c)

\* the value stored in matrix[i][j]; c is the cost of the substitution
Cell(matrix, i, j, c) ==
    Min(Min(matrix[i - 1][j] + 1, matrix[i][j - 1] + 1), matrix[i - 1][j - 1] + c)

\* for j in j..=len2 { ... } of row i
RECURSIVE FillRow(_, _, _, _, _)
FillRow(matrix, i, j, s1_chars, s2_chars) ==
    IF j > Len(s2_chars) THEN matrix
    ELSE FillRow([matrix EXCEPT ![i][j] =
                      Cell(matrix, i, j, cost(s1_chars[i], s2_chars[j]))],
                 i, j + 1, s1_chars, s2_chars)

\* for i in i..=len1 { for j in 1..=len2 { ... } }
RECURSIVE FillMatrix(_, _, _, _)
FillMatrix(matrix, i, s1_chars, s2_chars) ==
    IF i > Len(s1_chars) THEN matrix
    ELSE FillMatrix(FillRow(matrix, i, 1, s1_chars, s2_chars),
                    i + 1, s1_chars, s2_chars)

levenshtein_distance(a, b) ==
    LET s1_chars == chars(a)
        s2_chars == chars(b)
        len1 == Len(s1_chars)
        len2 == Len(s2_chars)
    IN  IF len1 = 0 THEN len2
        ELSE IF len2 = 0 THEN len1
        ELSE LET m0 == InitRow(InitColumn(ZeroMatrix(len1, len2), 0, len1), 0, len2)
             IN  FillMatrix(m0, 1, s1_chars, s2_chars)[len1][len2]

----------------------------------------------------------------------------
(* f64 *)

RECURSIVE Gcd(_, _)
Gcd(x, y) == IF y = 0 THEN x ELSE Gcd(y, x % y)

Abs(x) == IF x < 0 THEN -x ELSE x

\* the f64 n / d, for d > 0
Frac(n, d) == LET g == Gcd(Abs(n), d) IN [num |-> n \div g, den |-> d \div g]

NaN == [num |-> 0, den |-> 0]

IsNaN(x) == x.den = 0

\* f64::partial_cmp
partial_cmp(x, y) ==
    IF IsNaN(x) \/ IsNaN(y) THEN "None"
    ELSE IF x.num * y.den < y.num * x.den THEN "Less"
    ELSE IF x.num * y.den > y.num * x.den THEN "Greater"
    ELSE "Equal"

\* x >= y on f64: false when either is NaN
Ge(x, y) == partial_cmp(x, y) \in {"Greater", "Equal"}

----------------------------------------------------------------------------
(* similarity_score *)

\* max_len taking the shorter length
MaxLenAsMin(a, b) == Min(len(a), len(b))

\* s1.len().max(s2.len())
max_len(a, b) == Max(len(a), len(b))

\* 1.0 - (distance as f64 / max_len as f64)
similarity_score(a, b) ==
    LET distance == levenshtein_distance(a, b)
        m == max_len(a, b)
    IN  IF m = 0 THEN Frac(1, 1) ELSE Frac(m - distance, m)

----------------------------------------------------------------------------
(* The list operations *)

\* a JsValue that is an array of strings
JsArray(ws) == [kind |-> "array", items |-> ws]

\* a JsValue that is no array of strings
JsNumber == [kind |-> "number", items |-> <<>>]

Ok(v) == [ok |-> TRUE, val |-> v]

Err(msg) == [ok |-> FALSE, val |-> msg]

\* Option<MatchResult>: JsValue::NULL stands for None
None == <<>>

Some(r) == <<r>>

\* the closure of .map(): the MatchResult of one candidate
MatchResult(query, word) ==
    [word |-> word,
     distance |-> levenshtein_distance(query, word),
     similarity |-> similarity_score(query, word)]

\* words_vec.iter().map(...)
MapResults(query, words_vec) ==
    [i \in 1..Len(words_vec) |-> MatchResult(query, words_vec[i])]

\* Keep with > for >=
KeepStrictlyAbove(m, t) == partial_cmp(m.similarity, t) = "Greater"

\* the closure of .filter(): m.similarity >= threshold
Keep(m, t) == Ge(m.similarity, t)

Filter(ms, t) == SelectSeq(ms, LAMBDA m : Keep(m, t))

\* CompareDescending that never answers Equal: equal scores change places
CompareTiesLess(a, b) ==
    IF partial_cmp(b.similarity, a.similarity) = "Equal" THEN "Less"
    ELSE partial_cmp(b.similarity, a.similarity)

\* the comparator of sort_by: b.similarity.partial_cmp(&a.similarity).unwrap()
CompareDescending(a, b) == partial_cmp(b.similarity, a.similarity)

\* slice::sort_by places x in a sorted run: x moves left past every element it
\* is Less than, and past no other (the sort is stable)
RECURSIVE InsertTail(_, _)
InsertTail(sorted, x) ==
    IF sorted = <<>> \/ CompareDescending(x, sorted[Len(sorted)]) # "Less"
    THEN Append(sorted, x)
    ELSE Append(InsertTail(SubSeq(sorted, 1, Len(sorted) - 1), x),
                sorted[Len(sorted)])

RECURSIVE SortFrom(_, _, _)
SortFrom(sorted, v, i) ==
    IF i > Len(v) THEN sorted ELSE SortFrom(InsertTail(sorted, v[i]), v, i + 1)

\* matches.sort_by(...)
sort_by(v) == SortFrom(<<>>, v, 1)

\* Pick that keeps the earlier of two equal scores
PickFirstOfTies(x, y) ==
    IF partial_cmp(x.similarity, y.similarity) \in {"Greater", "Equal"} THEN x ELSE y

\* Pick that keeps the lower score
PickSmaller(x, y) ==
    IF partial_cmp(x.similarity, y.similarity) = "Less" THEN x ELSE y

\* the step of Iterator::max_by: x is kept only when it compares Greater
Pick(x, y) ==
    IF partial_cmp(x.similarity, y.similarity) = "Greater" THEN x ELSE y

RECURSIVE MaxFrom(_, _, _)
MaxFrom(best, v, i) ==
    IF i > Len(v) THEN best ELSE MaxFrom(Pick(best, v[i]), v, i + 1)

\* .max_by(|a, b| a.similarity.partial_cmp(&b.similarity).unwrap()), v not empty
max_by(v) == MaxFrom(v[1], v, 2)

find_matches(query, ws, t) ==
    IF ws.kind # "array" THEN Err("Failed to parse words")
    ELSE Ok(sort_by(Filter(MapResults(query, ws.items), t)))

find_best_match(query, ws) ==
    IF ws.kind # "array" THEN Err("Failed to parse words")
    ELSE IF ws.items = <<>> THEN Ok(None)
    ELSE Ok(Some(max_by(MapResults(query, ws.items))))

----------------------------------------------------------------------------
(* The exported operations, each called with any input and then returning *)

\* thresholds: 0.0, 0.5, 1.0, 1.5 and NaN
Thresholds == {Frac(0, 1), Frac(1, 2), Frac(1, 1), Frac(3, 2), NaN}

WordLists == SeqsUpTo(WordStrings, MaxWords)

JsValues == {JsArray(ws) : ws \in WordLists} \cup {JsNumber}

NoStr == <<>>

NoWords == JsNumber

NoF64 == NaN

NoRet == "none"

Init ==
    /\ pc = "idle"
    /\ op = "none"
    /\ s1 = NoStr
    /\ s2 = NoStr
    /\ words = NoWords
    /\ threshold = NoF64
    /\ ret = NoRet

\* calculate_distance(s1, s2), its inputs drawn from S
CallDistance(S) ==
    /\ pc = "idle"
    /\ \E a \in S, b \in S :
          /\ s1' = a
          /\ s2' = b
          /\ ret' = levenshtein_distance(a, b)
    /\ pc' = "done"
    /\ op' = "calculate_distance"
    /\ UNCHANGED <<words, threshold>>

CalculateDistance == CallDistance(Strings)

\* calculate_distance on the strings the triangle inequality is checked on
CalculateDistanceShort == CallDistance(ShortStrings)

\* calculate_similarity(s1, s2)
CalculateSimilarity ==
    /\ pc = "idle"
    /\ \E a \in Strings, b \in Strings :
          /\ s1' = a
          /\ s2' = b
          /\ ret' = similarity_score(a, b)
    /\ pc' = "done"
    /\ op' = "calculate_similarity"
    /\ UNCHANGED <<words, threshold>>

\* is_similar(s1, s2, threshold)
IsSimilar ==
    /\ pc = "idle"
    /\ \E a \in ShortStrings, b \in ShortStrings, t \in Thresholds :
          /\ s1' = a
          /\ s2' = b
          /\ threshold' = t
          /\ ret' = Ge(similarity_score(a, b), t)
    /\ pc' = "done"
    /\ op' = "is_similar"
    /\ UNCHANGED words

\* find_matches(query, words, threshold)
FindMatches ==
    /\ pc = "idle"
    /\ \E query \in WordStrings, ws \in JsValues, t \in Thresholds :
          /\ s1' = query
          /\ words' = ws
          /\ threshold' = t
          /\ ret' = find_matches(query, ws, t)
    /\ pc' = "done"
    /\ op' = "find_matches"
    /\ UNCHANGED s2

\* find_best_match(query, words)
FindBestMatch ==
    /\ pc = "idle"
    /\ \E query \in WordStrings, ws \in JsValues :
          /\ s1' = query
          /\ words' = ws
          /\ ret' = find_best_match(query, ws)
    /\ pc' = "done"
    /\ op' = "find_best_match"
    /\ UNCHANGED <<s2, threshold>>

\* the call is over; nothing of it is kept
Return ==
    /\ pc = "done"
    /\ pc' = "idle"
    /\ op' = "none"
    /\ s1' = NoStr
    /\ s2' = NoStr
    /\ words' = NoWords
    /\ threshold' = NoF64
    /\ ret' = NoRet

Next ==
    \/ CalculateDistance
    \/ CalculateSimilarity
    \/ IsSimilar
    \/ Return

\* the operations on two strings
Spec == Init /\ [][Next]_vars

ListNext ==
    \/ FindMatches
    \/ FindBestMatch
    \/ Return

\* the operations on a list of candidates
ListSpec == Init /\ [][ListNext]_vars

TriangleNext ==
    \/ CalculateDistanceShort
    \/ Return

\* calculate_distance on short strings
TriangleSpec == Init /\ [][TriangleNext]_vars

----------------------------------------------------------------------------
(* What the properties are stated with *)

Returned(o) == pc = "done" /\ op = o

Min3(x, y, z) == Min(Min(x, y), z)

\* the edit distance of the suffixes x[i..] and y[j..] by its recursive definition
RECURSIVE RefFrom(_, _, _, _)
RefFrom(x, y, i, j) ==
    IF i > Len(x) THEN Len(y) - j + 1
    ELSE IF j > Len(y) THEN Len(x) - i + 1
    ELSE IF x[i] = y[j] THEN RefFrom(x, y, i + 1, j + 1)
    ELSE 1 + Min3(RefFrom(x, y, i + 1, j), RefFrom(x, y, i, j + 1),
                  RefFrom(x, y, i + 1, j + 1))

\* the reference edit distance of two sequences of scalar values
RefDist(x, y) == RefFrom(x, y, 1, 1)

\* the sequences one deletion, one insertion or one substitution away from y
Deletions(y) ==
    {SubSeq(y, 1, i - 1) \o SubSeq(y, i + 1, Len(y)) : i \in 1..Len(y)}

Insertions(y) ==
    {SubSeq(y, 1, i) \o <<c>> \o SubSeq(y, i + 1, Len(y)) :
        i \in 0..Len(y), c \in Alphabet}

Substitutions(y) ==
    UNION {{[y EXCEPT ![i] = c] : c \in Alphabet \ {y[i]}} : i \in 1..Len(y)}

OneEdit(y) == Deletions(y) \cup Insertions(y) \cup Substitutions(y)

\* how often w occurs in the sequence v
Count(v, w) == Cardinality({i \in DOMAIN v : v[i] = w})

One == Frac(1, 1)

Zero == Frac(0, 1)

----------------------------------------------------------------------------
(* C1 *)

\* C1: the distance calculate_distance returns is the minimum number of
\* single-scalar-value insertions, deletions and substitutions turning s1 into s2:
\* it equals the recursive edit distance; one more edit of s2 raises it by at most
\* one (so no edit script is shorter than the distance); and when it is not zero
\* some single edit of s2, no longer than the longer input, lowers it by one (so a
\* script of that length exists).
C1_DistanceIsMinimumEdits ==
    Returned("calculate_distance") =>
        LET x == chars(s1)
            y == chars(s2)
        IN  /\ ret = RefDist(x, y)
            /\ \A n \in OneEdit(y) : levenshtein_distance(s1, Str(n)) <= ret + 1
            /\ ret > 0 =>
                  \E n \in OneEdit(y) :
                      /\ Len(n) <= Max(Len(x), Len(y))
                      /\ levenshtein_distance(s1, Str(n)) = ret - 1

\* a distance of 2 between inputs of different lengths, one holding a two-byte character
C1_Witness ==
    /\ Returned("calculate_distance")
    /\ Len(chars(s1)) = 3
    /\ Len(chars(s2)) = 2
    /\ len(s1) > 3
    /\ ret = 2

----------------------------------------------------------------------------
(* C2 *)

\* the score with both lengths counted in scalar values
ScalarScore(a, b) ==
    LET m == Max(Len(chars(a)), Len(chars(b)))
    IN  IF m = 0 THEN One ELSE Frac(m - levenshtein_distance(a, b), m)

\* C2: calculate_similarity returns 1 - distance / max(len) with the lengths
\* counted in scalar values, as the distance is; so the score is 0.0 exactly when
\* the distance is the scalar-value length of the longer input.
C2_ScoreUsesScalarLengths ==
    Returned("calculate_similarity") =>
        /\ ret = ScalarScore(s1, s2)
        /\ (s1 # <<>> \/ s2 # <<>>) =>
              (ret = Zero <=>
                  levenshtein_distance(s1, s2) = Max(Len(chars(s1)), Len(chars(s2))))

----------------------------------------------------------------------------
(* C3 *)

\* C3: the score calculate_similarity returns lies in [0.0, 1.0], the distance
\* never exceeding the denominator max_len; for two empty inputs it is exactly 1.0.
C3_ScoreInUnitInterval ==
    Returned("calculate_similarity") =>
        /\ Ge(ret, Zero)
        /\ Ge(One, ret)
        /\ levenshtein_distance(s1, s2) <= max_len(s1, s2)
        /\ (s1 = <<>> /\ s2 = <<>>) => ret = One

\* a score of 0.0 for two inputs that are not empty
C3_Witness ==
    /\ Returned("calculate_similarity")
    /\ s1 # <<>>
    /\ s2 # <<>>
    /\ ret = Zero

----------------------------------------------------------------------------
(* C4 *)

\* the record of each candidate of the input, in input order
RECURSIVE RecordsFrom(_)
RecordsFrom(i) ==
    IF i > Len(words.items) THEN <<>>
    ELSE <<MatchResult(s1, words.items[i])>> \o RecordsFrom(i + 1)

Records == RecordsFrom(1)

\* the candidates of the input whose score reaches the threshold
KeptIndices(recs) == {i \in DOMAIN recs : Ge(recs[i].similarity, threshold)}

\* C4: find_matches returns exactly the candidates whose score reaches the
\* threshold, as often as the input holds them, each with its distance and score;
\* a threshold of 0.0 keeps every candidate and a threshold above 1.0 keeps none.
C4_MatchesAreTheCandidatesAtThreshold ==
    (Returned("find_matches") /\ words.kind = "array") =>
        \A recs \in {Records} : \A kept \in {KeptIndices(recs)} :
            /\ ret.ok
            /\ \A k \in DOMAIN ret.val : \E i \in kept : ret.val[k] = recs[i]
            /\ \A i \in DOMAIN recs :
                  Count(ret.val, recs[i]) =
                      IF i \in kept THEN Count(recs, recs[i]) ELSE 0
            /\ threshold = Zero => Len(ret.val) = Len(words.items)
            /\ partial_cmp(threshold, One) = "Greater" => ret.val = <<>>

\* one candidate is dropped and one is returned twice
C4_Witness ==
    /\ Returned("find_matches")
    /\ words.kind = "array"
    /\ Len(words.items) = 3
    /\ Len(ret.val) = 2
    /\ ret.val[1].word = ret.val[2].word
    /\ threshold = Frac(1, 2)

----------------------------------------------------------------------------
(* C5 *)

\* how many kept candidates come before candidate i: those of a higher score, and
\* those of the same score that come earlier in the input
Rank(recs, kept, i) ==
    Cardinality({j \in kept :
        LET c == partial_cmp(recs[j].similarity, recs[i].similarity)
        IN  c = "Greater" \/ (c = "Equal" /\ j < i)})

\* C5: the sequence find_matches returns is ordered by score, highest first, and
\* candidates of equal score keep the order they have in the input.
C5_MatchesSortedStable ==
    (Returned("find_matches") /\ words.kind = "array") =>
        \A recs \in {Records} : \A kept \in {KeptIndices(recs)} :
            /\ \A k \in DOMAIN ret.val : \A l \in DOMAIN ret.val :
                  k < l => Ge(ret.val[k].similarity, ret.val[l].similarity)
            /\ \A i \in kept :
                  /\ Rank(recs, kept, i) + 1 \in DOMAIN ret.val
                  /\ ret.val[Rank(recs, kept, i) + 1].word = words.items[i]

\* the last candidate moves to the front, and two different candidates of equal
\* score follow it in their input order
C5_Witness ==
    /\ Returned("find_matches")
    /\ words.kind = "array"
    /\ Len(words.items) = 3
    /\ Len(ret.val) = 3
    /\ ret.val[1].word = words.items[3]
    /\ ret.val[2].word = words.items[1]
    /\ ret.val[3].word = words.items[2]
    /\ ret.val[2].word # ret.val[3].word
    /\ ret.val[2].similarity = ret.val[3].similarity
    /\ ret.val[1].similarity # ret.val[2].similarity

----------------------------------------------------------------------------
(* C6 *)

\* C6: find_best_match returns None exactly when the candidate list is empty;
\* otherwise it returns the record of a candidate whose score no candidate
\* exceeds, whatever that score is.
C6_BestMatchIsAMaximum ==
    (Returned("find_best_match") /\ words.kind = "array") =>
        \A recs \in {Records} :
            /\ ret.ok
            /\ ret.val = None <=> words.items = <<>>
            /\ words.items # <<>> =>
                  /\ Len(ret.val) = 1
                  /\ \E i \in DOMAIN recs : ret.val[1] = recs[i]
                  /\ \A j \in DOMAIN recs :
                        Ge(ret.val[1].similarity, recs[j].similarity)

\* the best of three candidates is returned with a score of 0.5, the first
\* candidate having a lower one
C6_Witness ==
    /\ Returned("find_best_match")
    /\ words.kind = "array"
    /\ Len(words.items) = 3
    /\ ret.val # None
    /\ ret.val[1].similarity = Frac(1, 2)
    /\ Records[1].similarity = Zero

----------------------------------------------------------------------------
(* C7 *)

\* C7: the distance is symmetric: calculate_distance(s1, s2) returns the
\* distance of s2 and s1, also when exactly one of the two is empty.
C7_DistanceSymmetric ==
    Returned("calculate_distance") => ret = levenshtein_distance(s2, s1)

\* exactly one input is empty, the other holds three scalar values
C7_Witness ==
    /\ Returned("calculate_distance")
    /\ s1 = <<>>
    /\ Len(chars(s2)) = 3
    /\ ret = 3

----------------------------------------------------------------------------
(* C8 *)

\* C8: the distance of s1 and s2 is at most the distance of s1 and b plus the
\* distance of b and s2, for every string b.
C8_TriangleInequality ==
    Returned("calculate_distance") =>
        \A b \in ShortStrings :
            ret <= levenshtein_distance(s1, b) + levenshtein_distance(b, s2)

\* a middle string, different from both ends, on a shortest path between two
\* strings that are not empty
C8_Witness ==
    /\ Returned("calculate_distance")
    /\ s1 # <<>>
    /\ s2 # <<>>
    /\ ret = 2
    /\ \E b \in ShortStrings :
          /\ b # s1
          /\ b # s2
          /\ levenshtein_distance(s1, b) = 1
          /\ levenshtein_distance(b, s2) = 1

----------------------------------------------------------------------------
(* C9 *)

\* C9: the distance is 0 exactly when the two inputs are the same sequence of
\* scalar values, and the score of a string with itself is 1.0.
C9_ZeroIffEqual ==
    /\ Returned("calculate_distance") => (ret = 0 <=> chars(s1) = chars(s2))
    /\ (Returned("calculate_similarity") /\ chars(s1) = chars(s2)) => ret = One

\* a string of three scalar values, one of two bytes, scored against itself
C9_Witness ==
    /\ Returned("calculate_similarity")
    /\ s1 = s2
    /\ Len(chars(s1)) = 3
    /\ len(s1) = 4
    /\ ret = One

----------------------------------------------------------------------------
(* C10 *)

\* the candidates no candidate scores higher than
MaximaOf(recs) ==
    {i \in DOMAIN recs :
        \A j \in DOMAIN recs : Ge(recs[i].similarity, recs[j].similarity)}

First(S) == CHOOSE i \in S : \A j \in S : i <= j

Last(S) == CHOOSE i \in S : \A j \in S : i >= j

\* C10 as stated: of several candidates sharing the highest score,
\* find_best_match returns the first in input order.
C10_BestMatchIsFirstMaximum ==
    (Returned("find_best_match") /\ words.kind = "array" /\ words.items # <<>>) =>
        \A recs \in {Records} :
            ret.val[1].word = words.items[First(MaximaOf(recs))]

\* C10 as amended: of several candidates sharing the highest score,
\* find_best_match returns the last in input order; the choice is a function of
\* the input sequence.
C10_BestMatchIsLastMaximum ==
    (Returned("find_best_match") /\ words.kind = "array" /\ words.items # <<>>) =>
        \A recs \in {Records} :
            ret.val = Some(recs[Last(MaximaOf(recs))])

\* the first two of three candidates are different and share the highest score,
\* which is not 1.0; the third scores lower
C10_Witness ==
    /\ Returned("find_best_match")
    /\ words.kind = "array"
    /\ Len(words.items) = 3
    /\ MaximaOf(Records) = {1, 2}
    /\ words.items[1] # words.items[2]
    /\ ret.val[1].word = words.items[2]
    /\ ret.val[1].similarity # One

====
